---- MODULE Spec2Model ----
(***************************************************************************)
(* Model of the Takealot repricing engine (src/app.py): the pricing        *)
(* decision calculate_optimal_price, the layered competitor price lookup   *)
(* (stored record -> in-memory cache -> live fetch -> simulated price),    *)
(* the webhook pipeline handle_price_change that drives both, the loading  *)
(* of products_config.csv and the background monitoring loop.              *)
(*                                                                         *)
(* Numbers.  Python floats and ints that carry prices are modelled in      *)
(* cents (the scraper itself receives cents and divides by 100.0), so      *)
(* 500.9 is 50090 and int(500.9) is 50000.  A Python value is a record     *)
(* [tag, v]: tag "num" (v in cents), "none" (None), "own" (the string      *)
(* "we_own_buybox"), "text" (any other non-empty, non-numeric string) and  *)
(* "raise" (the call raised instead of returning).                         *)
(*                                                                         *)
(* Time is in whole seconds.                                               *)
(***************************************************************************)
EXTENDS Integers, Sequences, FiniteSets, TLC

(***************************************************************************)
(* Program constants                                                       *)
(***************************************************************************)
PRICE_FRESHNESS_SECONDS == 3600

MIN_REQUEST_INTERVAL == 3

cache_ttl == 3600

CentsPerRand == 100

FallbackMinPrice == 500

FallbackMaxPrice == 700

SimulatedBase == 450

SimulatedSpread == 200

FallbackBase == 500

FallbackSpread == 100

max_retries == 3

(***************************************************************************)
(* Bounds of the model                                                     *)
(***************************************************************************)
\* whole-unit prices 0..MaxUnit are drawn for the decision's inputs
MaxUnit == 4

\* number of one-second clock steps in a run
MaxSmallTicks == 2

\* number of (PRICE_FRESHNESS_SECONDS - 1)-second clock steps in a run
MaxBigTicks == 1

\* number of webhooks served in a run
MaxWebhooks == 2

\* number of writes to the stored-price table in a run
MaxStores == 1

\* number of request threads that resolve a price at the same time
MaxThreads == 2

\* number of one-second clock steps while request threads wait on the rate limit
MaxWaitTicks == 5

\* number of rows of products_config.csv
MaxRows == 2

\* number of monitoring cycles the loop starts
MaxCycles == 2

(***************************************************************************)
(* Python values                                                           *)
(***************************************************************************)
Num(c) == [tag |-> "num", v |-> c]

Rand(u) == Num(u * CentsPerRand)

NoneVal == [tag |-> "none", v |-> 0]

OwnsBuybox == [tag |-> "own", v |-> 0]

TextVal == [tag |-> "text", v |-> 0]

Raise == [tag |-> "raise", v |-> 0]

IsNum(x) == x.tag = "num"

\* Python truthiness: None and 0 are falsy, a non-empty string is truthy
Truthy(x) == IF x.tag = "none" THEN FALSE ELSE IF x.tag = "num" THEN x.v # 0 ELSE TRUE

\* int(x) if it kept the fractional part
NoTrunc(c) == c

\* int(x) on a number: truncation toward zero, kept in cents
TruncCents(c) == IF c >= 0 THEN (c \div CentsPerRand) * CentsPerRand
                 ELSE -(((-c) \div CentsPerRand) * CentsPerRand)

\* int(x): a number truncates; None and a non-numeric string raise
PyInt(x) == IF IsNum(x) THEN Num(TruncCents(x.v)) ELSE Raise

(***************************************************************************)
(* State                                                                   *)
(***************************************************************************)
VARIABLES
    product_config,     \* engine.product_config: offer id -> [min_price, max_price, plid]
    d_pc,               \* a direct call of calculate_optimal_price: "call" or "done"
    d_my,               \* its my_price argument
    d_comp,             \* its competitor_price argument
    d_offer,            \* its offer_id argument
    d_result,           \* what it returned (Raise when it raised)
    now,                \* the wall clock, time.time() / datetime.now(), in seconds
    store,              \* table competitor_prices: offer id -> [price, last_updated, source]
    price_cache,        \* engine.price_cache: offer id -> [price, timestamp]
    last_request_time,  \* engine.last_request_time
    stores,             \* writes made to competitor_prices other than the monitoring loop's
    served,             \* webhooks answered so far
    w_pc,               \* where the webhook request in progress stands
    w_offer,            \* its offer_id
    w_my,               \* its my_current_price
    w_real,             \* real_price, what get_real_competitor_price returned
    w_api,              \* what the API call of that fetch yielded
    w_ok,               \* whether the request's last update_price call returned True
    w_comp,             \* competitor_price, what the lookup returned
    w_source,           \* the source label returned with it
    w_tier,             \* the tier that supplied it
    w_wake,             \* the time a time.sleep() of the request ends
    w_optimal,          \* optimal_price
    w_status,           \* the response: a status, or the HTTP error code
    w_fetches,          \* get_real_competitor_price calls made for the request
    w_submits,          \* update_price calls made for the request
    t_pc,               \* request thread -> where it stands in get_real_competitor_price
    t_wake,             \* request thread -> the time its rate-limit sleep ends
    is_monitoring,      \* price_monitor.is_monitoring
    m_pc,               \* where the monitoring thread stands in _monitoring_loop
    m_idx,              \* the position in product_list of its next product
    m_wake,             \* the time its time.sleep() ends
    m_fetch,            \* the time of its last API call (0: none yet)
    m_price,            \* competitor_price of the iteration it is in (None outside one)
    m_cycles,           \* monitoring cycles it has started
    m_extra,            \* further loop threads of the current PriceMonitor that are alive
    m_orphans,          \* loop threads alive on a PriceMonitor that a reload replaced
    m_starting,         \* start_monitoring calls between their line 111 and line 115
    last_fetch          \* the time of the last live fetch of a request, on any engine

decideVars == <<d_pc, d_my, d_comp, d_offer, d_result>>

engineVars == <<now, store, price_cache, last_request_time, stores>>

webhookVars == <<served, w_pc, w_offer, w_my, w_real, w_api, w_ok, w_comp, w_source, w_tier,
                 w_wake,                  w_optimal, w_status, w_fetches, w_submits>>

threadVars == <<t_pc, t_wake>>

monitorVars == <<is_monitoring, m_pc, m_idx, m_wake, m_fetch, m_price, m_cycles>>

processVars == <<m_extra, m_orphans, m_starting, last_fetch>>

vars == <<product_config, decideVars, engineVars, webhookVars, threadVars, monitorVars,
          processVars>>

(***************************************************************************)
(* The pricing decision                                                    *)
(***************************************************************************)
\* get_product_thresholds: the configured bounds, or the fallback R500/R700
GetProductThresholds(config, offer_id) ==
    IF offer_id \in DOMAIN config
    THEN <<config[offer_id].min_price, config[offer_id].max_price>>
    ELSE <<Rand(FallbackMinPrice), Rand(FallbackMaxPrice)>>

\* competitor_price == "we_own_buybox"
OwnBuyboxIgnored(cp) == FALSE

IsOwnBuybox(cp) == cp = OwnsBuybox

\* int(competitor_price) if competitor_price and competitor_price != "we_own_buybox" else None
ConvertCompetitor(cp) == IF Truthy(cp) /\ cp # OwnsBuybox THEN PyInt(cp) ELSE NoneVal

\* not competitor_price or competitor_price <= 0
NoValidCompetitorOrCached(c) ==
    ~Truthy(c) \/ c.v <= 0 \/ \E o \in DOMAIN price_cache : price_cache[o].cached

NoValidCompetitor(c) == ~Truthy(c) \/ c.v <= 0

\* RULE 1: competitor_price < min_price
BelowMin(c, mn) == c.v < mn.v

\* RULE 2: new_price = competitor_price - 1
Undercut(c) == Num(c.v - CentsPerRand)

\* the price returned when the competitor is below min_price (RULE 1)
RevertToMin(mn, mx) == mn

RevertPrice(mn, mx) == mx

\* safety check: new_price < min_price
UnderFloorInclusive(new_price, mn) == new_price.v <= mn.v

UnderFloorSkipped(new_price, mn) == FALSE

UnderFloor(new_price, mn) == new_price.v < mn.v

\* safety check: new_price > max_price
OverCeiling(new_price, mx) == new_price.v > mx.v

\* calculate_optimal_price if it kept my_price whenever my_price is not above
\* the competitor's price
KeepWhenNotUndercut(config, my_price, competitor_price, offer_id) ==
    LET th == GetProductThresholds(config, offer_id)
        my == PyInt(my_price)
        c == ConvertCompetitor(competitor_price)
    IN  IF my = Raise \/ c = Raise THEN Raise
        ELSE IF IsOwnBuybox(competitor_price) THEN my
        ELSE IF NoValidCompetitor(c) THEN PyInt(th[2])
        ELSE IF my.v <= c.v THEN my
        ELSE Undercut(c)

CalculateOptimalPrice(config, my_price, competitor_price, offer_id) ==
    LET th == GetProductThresholds(config, offer_id)
        my == PyInt(my_price)
        mn == PyInt(th[1])
        mx == PyInt(th[2])
    IN  IF my = Raise \/ mn = Raise \/ mx = Raise THEN Raise
        ELSE IF IsOwnBuybox(competitor_price) THEN my
        ELSE LET c == ConvertCompetitor(competitor_price)
             IN  IF c = Raise THEN Raise
                 ELSE IF NoValidCompetitor(c) THEN mx
                 ELSE IF BelowMin(c, mn) THEN RevertPrice(mn, mx)
                 ELSE LET new_price == Undercut(c)
                      IN  IF UnderFloor(new_price, mn) THEN mx
                          ELSE IF OverCeiling(new_price, mx) THEN mx
                          ELSE new_price

\* describe_business_rule's own MIN_PRICE (line 1564)
MIN_PRICE == 500

\* describe_business_rule(my_price, competitor_price, optimal_price): the rule
\* named in the webhook response, or Raise
DescribeBusinessRule(my_price, competitor_price, optimal_price) ==
    IF PyInt(my_price) = Raise \/ PyInt(optimal_price) = Raise THEN "raise"
    ELSE IF competitor_price = OwnsBuybox THEN "WE_OWN_BUYBOX"
    ELSE LET c == IF Truthy(competitor_price) THEN PyInt(competitor_price) ELSE Num(0)
         IN  IF c = Raise THEN "raise"
             ELSE IF c.v < MIN_PRICE * CentsPerRand THEN "REVERT_TO_MAX"
             ELSE "R1_BELOW_COMPETITOR"

(***************************************************************************)
(* The engine's state after construction                                   *)
(***************************************************************************)
\* offer ids: a configured product and one that is not in products_config.csv
AllOffers == {"1001", "1003"}

\* webhook_data.get('offer_id') when the webhook carries none
NoOffer == ""

\* the clock when the process starts: later than every window, so that
\* last_request_time = 0 is far in the past
StartTime == PRICE_FRESHNESS_SECONDS + cache_ttl

NoRecord == [price |-> NoneVal, last_updated |-> 0, source |-> "none"]

NoEntry == [price |-> NoneVal, timestamp |-> 0, cached |-> FALSE]

EngineStart ==
    /\ now = StartTime
    /\ store = [o \in AllOffers |-> NoRecord]
    /\ price_cache = [o \in AllOffers |-> NoEntry]
    /\ last_request_time = 0
    /\ stores = 0

WebhookStart ==
    /\ served = 0
    /\ w_pc = "idle"
    /\ w_offer = NoOffer
    /\ w_my = Num(0)
    /\ w_real = NoneVal
    /\ w_api = NoneVal
    /\ w_ok = FALSE
    /\ w_comp = NoneVal
    /\ w_source = ""
    /\ w_tier = ""
    /\ w_wake = 0
    /\ w_optimal = NoneVal
    /\ w_status = ""
    /\ w_fetches = 0
    /\ w_submits = 0

\* request threads (Flask serves each request in a thread of its own)
Threads == 1..MaxThreads

ThreadStart ==
    /\ t_pc = [t \in Threads |-> "idle"]
    /\ t_wake = [t \in Threads |-> 0]

\* PriceMonitor.__init__: no monitoring thread yet
MonitorCreated ==
    /\ is_monitoring = FALSE
    /\ m_pc = "off"
    /\ m_idx = 1
    /\ m_wake = 0
    /\ m_fetch = 0
    /\ m_price = NoneVal
    /\ m_cycles = 0

\* the process starts: no loop thread, no live fetch made
ProcessStart ==
    /\ m_extra = 0
    /\ m_orphans = 0
    /\ m_starting = 0
    /\ last_fetch = 0

(***************************************************************************)
(* The stored-price table (PriceMonitor) and the cache                     *)
(***************************************************************************)
\* time_diff < PRICE_FRESHNESS_SECONDS
IsFreshInclusive(time_diff) == time_diff <= PRICE_FRESHNESS_SECONDS

IsFreshInverted(time_diff) == time_diff > PRICE_FRESHNESS_SECONDS

IsFresh(time_diff) == time_diff < PRICE_FRESHNESS_SECONDS

\* PriceMonitor.get_competitor_price: the stored price if fresh, else None
MonitorGet(st, offer_id, t) ==
    IF st[offer_id] = NoRecord THEN NoneVal
    ELSE IF IsFresh(t - st[offer_id].last_updated) THEN st[offer_id].price
    ELSE NoneVal

\* PriceMonitor.store_competitor_price: INSERT OR REPLACE of the whole row
StorePriceOnly(st, offer_id, price, source, t) == [st EXCEPT ![offer_id].price = price]

StoreCompetitorPrice(st, offer_id, price, source, t) ==
    [st EXCEPT ![offer_id] = [price |-> price, last_updated |-> t, source |-> source]]

\* time.time() - cached_data['timestamp'] < self.cache_ttl
CacheValidInclusive(age) == age <= cache_ttl

CacheValid(age) == age < cache_ttl

\* _get_cached_price
GetCachedPrice(cache, offer_id, t) ==
    IF cache[offer_id].cached /\ CacheValid(t - cache[offer_id].timestamp)
    THEN cache[offer_id].price
    ELSE NoneVal

\* _cache_price
CacheEveryKey(cache, offer_id, price, t) ==
    [o \in DOMAIN cache |-> [price |-> price, timestamp |-> t, cached |-> TRUE]]

CachePrice(cache, offer_id, price, t) ==
    [cache EXCEPT ![offer_id] = [price |-> price, timestamp |-> t, cached |-> TRUE]]

\* int(hashlib.md5(offer_id).hexdigest()[:8], 16), as its two 16-bit halves
HashHigh(offer_id) ==
    CASE offer_id = "1001" -> 47299
      [] offer_id = "1002" -> 64425
      [] offer_id = "1003" -> 43624

HashLow(offer_id) ==
    CASE offer_id = "1001" -> 32307
      [] offer_id = "1002" -> 55425
      [] offer_id = "1003" -> 51036

\* hash_int % m
HashMod(offer_id, m) ==
    ((HashHigh(offer_id) % m) * (65536 % m) + (HashLow(offer_id) % m)) % m

\* _simulate_scraping: float(450 + hash_int % 200)
SimulateScraping(offer_id) == Rand(SimulatedBase + HashMod(offer_id, SimulatedSpread))

\* _get_fallback_price: float(500 + hash_int % 100)
GetFallbackPrice(offer_id) == Rand(FallbackBase + HashMod(offer_id, FallbackSpread))

\* product_info.get("plid") is set
HasPlid(config, offer_id) == offer_id \in DOMAIN config /\ config[offer_id].plid

(***************************************************************************)
(* Inputs of the decision, for the specification that calls it directly    *)
(***************************************************************************)
\* fractional parts tried: none, and .90 as in my_price = 500.9
FracCents == {0, 90}

SmallPrices == {u * CentsPerRand + f : u \in 0..MaxUnit, f \in FracCents}

\* the prices of the documented scenarios (min 515, max 714, competitor 500/516/650)
ScenarioCompetitors == {Rand(500), Rand(516), Rand(650), Rand(716)}

Policy(mn, mx) == [min_price |-> Num(mn), max_price |-> Num(mx), plid |-> TRUE]

DecidePolicies == {Policy(mn, mx) : mn \in SmallPrices, mx \in SmallPrices}
                  \cup {Policy(515 * CentsPerRand, 714 * CentsPerRand)}

DecideCompetitors == {Num(c) : c \in SmallPrices} \cup ScenarioCompetitors
                     \cup {Num(-CentsPerRand), Num(-50), NoneVal, OwnsBuybox, TextVal}

DecideMyPrices == {Num(c) : c \in SmallPrices} \cup {Rand(700), Num(50090), TextVal}

ConfiguredOffer == "1001"

UnknownOffer == "1003"

DecideInit ==
    /\ product_config \in {(ConfiguredOffer :> pol) : pol \in DecidePolicies}
    /\ d_pc = "call"
    /\ d_my \in DecideMyPrices
    /\ d_comp \in DecideCompetitors
    /\ d_offer \in {ConfiguredOffer, UnknownOffer}
    /\ d_result = NoneVal
    /\ EngineStart
    /\ WebhookStart
    /\ ThreadStart
    /\ MonitorCreated
    /\ ProcessStart

\* one call engine.calculate_optimal_price(my_price, competitor_price, offer_id)
Decide ==
    /\ d_pc = "call"
    /\ d_result' = CalculateOptimalPrice(product_config, d_my, d_comp, d_offer)
    /\ d_pc' = "done"
    /\ UNCHANGED <<product_config, processVars, monitorVars, d_my, d_comp, d_offer, engineVars,
                   webhookVars, threadVars>>

DecideNext == Decide

DecideSpec == DecideInit /\ [][DecideNext]_vars

(***************************************************************************)
(* The webhook pipeline: handle_price_change, one request at a time, each  *)
(* step a point where the clock and the table's writers may interleave     *)
(***************************************************************************)
\* the product configuration when the rows of products_config.csv load: one
\* product, min 515, max 714.  An offer outside it ("1003") is what every offer
\* is when no row loads.
ServiceConfig == ("1001" :> Policy(515 * CentsPerRand, 714 * CentsPerRand))

\* offer_id and my_current_price as webhooks carry them
WebhookOffers == AllOffers \cup {NoOffer}

WebhookMyPrices == {Rand(700)}

\* what the product-details API can yield: a price, our own buybox, or nothing
LivePrices == {Rand(650)}

LiveOutcomes == LivePrices \cup {OwnsBuybox, NoneVal}

\* offer_id and competitor_price values POSTed to /monitoring/update-price
ManualOffers == {UnknownOffer}

ManualPrices == {TextVal}

\* random.uniform(0.5, 1.5), in whole seconds
JitterSeconds == {1}

\* the request is answered
ResponseWithheld(status) == w_status' = status /\ UNCHANGED <<w_pc, served>>

Respond(status) ==
    /\ w_status' = status
    /\ w_pc' = "idle"
    /\ served' = served + 1

\* if not offer_id
MissingOfferIdAccepted(offer_id) == FALSE

MissingOfferId(offer_id) == offer_id = NoOffer

\* lines 750-780: read the payload, reject a missing offer_id
Webhook(offer_id, my_price) ==
    /\ w_pc = "idle"
    /\ served < MaxWebhooks
    /\ w_offer' = offer_id
    /\ w_my' = my_price
    /\ w_real' = NoneVal
    /\ w_api' = NoneVal
    /\ w_ok' = FALSE
    /\ w_comp' = NoneVal
    /\ w_source' = ""
    /\ w_tier' = ""
    /\ w_wake' = 0
    /\ w_optimal' = NoneVal
    /\ w_fetches' = 0
    /\ w_submits' = 0
    /\ IF MissingOfferId(offer_id)
       THEN Respond("400")
       ELSE w_status' = "" /\ w_pc' = "instant" /\ served' = served
    /\ UNCHANGED <<product_config, processVars, monitorVars, decideVars, threadVars,
                   engineVars>>

\* get_competitor_price_instant, lines 392-394
InstantLookup ==
    /\ w_pc = "instant"
    /\ LET stored_price == MonitorGet(store, w_offer, now)
       IN  IF stored_price # NoneVal
           THEN /\ w_comp' = stored_price
                /\ w_source' = "proactive_monitoring"
                /\ w_tier' = "stored"
                /\ w_pc' = "decide"
           ELSE /\ w_pc' = "stored"
                /\ UNCHANGED <<w_comp, w_source, w_tier>>
    /\ UNCHANGED <<product_config, processVars, monitorVars, decideVars, threadVars,
                   engineVars, served, w_offer, w_my, w_real, w_api, w_ok,
                   w_wake, w_optimal, w_status, w_fetches, w_submits>>

\* get_competitor_price, lines 405-408 (its result is labelled at line 399)
StoredLookup ==
    /\ w_pc = "stored"
    /\ LET stored_price == MonitorGet(store, w_offer, now)
       IN  IF stored_price # NoneVal
           THEN /\ w_comp' = stored_price
                /\ w_source' = "real_time_scraping"
                /\ w_tier' = "stored"
                /\ w_pc' = "decide"
           ELSE /\ w_pc' = "cache"
                /\ UNCHANGED <<w_comp, w_source, w_tier>>
    /\ UNCHANGED <<product_config, processVars, monitorVars, decideVars, threadVars,
                   engineVars, served, w_offer, w_my, w_real, w_api, w_ok,
                   w_wake, w_optimal, w_status, w_fetches, w_submits>>

\* get_competitor_price, lines 411-414
CacheLookup ==
    /\ w_pc = "cache"
    /\ LET cached_price == GetCachedPrice(price_cache, w_offer, now)
       IN  IF cached_price # NoneVal
           THEN /\ w_comp' = cached_price
                /\ w_source' = "real_time_scraping"
                /\ w_tier' = "cache"
                /\ w_pc' = "decide"
           ELSE /\ w_pc' = "ratelimit"
                /\ UNCHANGED <<w_comp, w_source, w_tier>>
    /\ UNCHANGED <<product_config, processVars, monitorVars, decideVars, threadVars,
                   engineVars, served, w_offer, w_my, w_real, w_api, w_ok,
                   w_wake, w_optimal, w_status, w_fetches, w_submits>>

\* time_since_last < self.min_request_interval
TooSoonNever(time_since_last) == FALSE

TooSoon(time_since_last) == time_since_last < MIN_REQUEST_INTERVAL

\* sleep_time = self.min_request_interval - time_since_last + random.uniform(0.5, 1.5)
SleepTime(time_since_last, jitter) == (MIN_REQUEST_INTERVAL - time_since_last) + jitter

\* _respect_rate_limit, lines 664-670: sleep if the last request is too recent
RateLimitCheck ==
    /\ w_pc = "ratelimit"
    /\ LET time_since_last == now - last_request_time
       IN  IF TooSoon(time_since_last)
           THEN \E jitter \in JitterSeconds :
                    /\ w_wake' = now + SleepTime(time_since_last, jitter)
                    /\ w_pc' = "sleeping"
           ELSE /\ w_pc' = "stamp"
                /\ UNCHANGED w_wake
    /\ UNCHANGED <<product_config, processVars, monitorVars, decideVars, threadVars,
                   engineVars, served, w_offer, w_my, w_real, w_api, w_ok,
                   w_comp, w_source, w_tier, w_optimal, w_status, w_fetches, w_submits>>

\* _respect_rate_limit, line 670: time.sleep(sleep_time) returns
RateLimitWake ==
    /\ w_pc = "sleeping"
    /\ now >= w_wake
    /\ w_wake' = 0
    /\ w_pc' = "stamp"
    /\ UNCHANGED <<product_config, processVars, monitorVars, decideVars, threadVars,
                   engineVars, served, w_offer, w_my, w_real, w_api, w_ok,
                   w_comp, w_source, w_tier, w_optimal, w_status, w_fetches, w_submits>>

\* _respect_rate_limit, line 672
RateLimitStamp ==
    /\ w_pc = "stamp"
    /\ last_request_time' = now
    /\ last_fetch' = now
    /\ w_pc' = "fetch"
    /\ UNCHANGED <<product_config, m_extra, m_orphans, m_starting, monitorVars, decideVars, threadVars,
                   now, store, price_cache, stores, served,
                   w_offer, w_my, w_real, w_api, w_ok, w_comp, w_source, w_tier, w_wake, w_optimal,
                   w_status, w_fetches, w_submits>>

\* the API call failed: a network error, a timeout, a body that does not parse
FetchError == [tag |-> "error", v |-> 0]

\* the except clauses of get_real_competitor_price, lines 538-542
FetchErrorEscapes(outcome) == IF outcome = FetchError THEN Raise ELSE outcome

FetchResult(outcome) == IF outcome = FetchError THEN NoneVal ELSE outcome

\* get_real_competitor_price, lines 443-542: None without a PLID (no API call
\* is made), else what the API call yields, an error giving None
LiveFetch(outcome) ==
    /\ w_pc = "fetch"
    /\ w_api' = IF HasPlid(product_config, w_offer) THEN outcome ELSE NoneVal
    /\ w_real' = IF HasPlid(product_config, w_offer) THEN FetchResult(outcome) ELSE NoneVal
    /\ w_fetches' = w_fetches + 1
    /\ w_pc' = "fetched"
    /\ UNCHANGED <<product_config, processVars, monitorVars, decideVars, threadVars,
                   engineVars, served, w_offer, w_my, w_ok, w_comp,
                   w_source, w_tier, w_wake, w_optimal, w_status, w_submits>>

\* get_competitor_price if it called get_real_competitor_price again after a
\* fetch without a price
AfterFetchRetry ==
    /\ w_pc = "fetched"
    /\ IF IsNum(w_real) /\ w_real.v > 0
       THEN /\ price_cache' = CachePrice(price_cache, w_offer, w_real, now)
            /\ w_comp' = w_real
            /\ w_source' = "real_time_scraping"
            /\ w_tier' = "live"
            /\ w_pc' = "decide"
       ELSE /\ w_pc' = "fetch"
            /\ UNCHANGED <<price_cache, w_comp, w_source, w_tier>>
    /\ UNCHANGED <<product_config, processVars, monitorVars, decideVars, threadVars,
                   now, store, last_request_time, stores,
                   served, w_offer, w_my, w_real, w_api, w_ok, w_wake, w_optimal, w_status,
                   w_fetches, w_submits>>

\* get_competitor_price, lines 421-436.  For real_price = "we_own_buybox" the
\* test `real_price and real_price > 0` compares a str with an int: TypeError,
\* caught at line 434, and the fallback price is returned.
AfterFetch ==
    /\ w_pc = "fetched"
    /\ IF IsNum(w_real) /\ w_real.v > 0
       THEN /\ price_cache' = CachePrice(price_cache, w_offer, w_real, now)
            /\ w_comp' = w_real
            /\ w_source' = "real_time_scraping"
            /\ w_tier' = "live"
            /\ w_pc' = "decide"
            /\ UNCHANGED w_wake
       ELSE IF w_real = OwnsBuybox
       THEN /\ w_comp' = GetFallbackPrice(w_offer)
            /\ w_source' = "real_time_scraping"
            /\ w_tier' = "fallback"
            /\ w_pc' = "decide"
            /\ UNCHANGED <<price_cache, w_wake>>
       ELSE /\ w_wake' = now + 1
            /\ w_pc' = "simulating"
            /\ UNCHANGED <<price_cache, w_comp, w_source, w_tier>>
    /\ UNCHANGED <<product_config, processVars, monitorVars, decideVars, threadVars,
                   now, store, last_request_time, stores,
                   served, w_offer, w_my, w_real, w_api, w_ok, w_optimal, w_status, w_fetches,
                   w_submits>>

\* _simulate_scraping after its time.sleep(1), then lines 431-432
SimulatedPrice ==
    /\ w_pc = "simulating"
    /\ now >= w_wake
    /\ price_cache' = CachePrice(price_cache, w_offer, SimulateScraping(w_offer), now)
    /\ w_comp' = SimulateScraping(w_offer)
    /\ w_source' = "real_time_scraping"
    /\ w_tier' = "simulated"
    /\ w_pc' = "decide"
    /\ w_wake' = 0
    /\ UNCHANGED <<product_config, processVars, monitorVars, decideVars, threadVars,
                   now, store, last_request_time, stores,
                   served, w_offer, w_my, w_real, w_api, w_ok, w_optimal, w_status, w_fetches,
                   w_submits>>

\* optimal_price != my_current_price, on the payload's my_current_price as it came
NeedsUpdateAlways(optimal_price, my_current_price) == TRUE

NeedsUpdate(optimal_price, my_current_price) == optimal_price # my_current_price

\* handle_price_change, lines 788-798 (an exception ends in the 500 of line 821)
DecideStep ==
    /\ w_pc = "decide"
    /\ LET optimal_price == CalculateOptimalPrice(product_config, w_my, w_comp, w_offer)
       IN  /\ w_optimal' = optimal_price
           /\ IF optimal_price = Raise THEN Respond("500")
              ELSE IF NeedsUpdate(optimal_price, w_my)
              THEN w_pc' = "submit" /\ UNCHANGED <<w_status, served>>
              ELSE Respond("no_change")
    /\ UNCHANGED <<product_config, processVars, monitorVars, decideVars, threadVars,
                   engineVars, w_offer, w_my, w_real, w_api, w_ok,
                   w_comp,                    w_source, w_tier, w_wake, w_fetches, w_submits>>

\* for attempt in range(max_retries): the loop ends after max_retries calls
RetriesUnbounded(calls) == FALSE

RetriesExhausted(calls) == calls >= max_retries

\* update_price_with_retry if it made every attempt whatever the first ones returned
SubmitAllAttempts(success) ==
    /\ w_pc = "submit"
    /\ w_submits' = w_submits + 1
    /\ w_ok' = success
    /\ IF RetriesExhausted(w_submits + 1)
       THEN Respond(IF success THEN "updated" ELSE "update_failed")
       ELSE UNCHANGED <<w_status, w_pc, served>>
    /\ UNCHANGED <<product_config, processVars, monitorVars, decideVars, threadVars,
                   engineVars, w_offer, w_my, w_real, w_api,
                   w_comp, w_source, w_tier, w_wake, w_optimal, w_fetches>>

\* update_price_with_retry, lines 634-648: one update_price call, which returns
\* True or False (it catches its own exceptions); attempt = calls made so far
SubmitAttempt(success) ==
    /\ w_pc = "submit"
    /\ w_submits' = w_submits + 1
    /\ w_ok' = success
    /\ IF success THEN Respond("updated")
       ELSE IF RetriesExhausted(w_submits + 1) THEN Respond("update_failed")
       ELSE UNCHANGED <<w_status, w_pc, served>>
    /\ UNCHANGED <<product_config, processVars, monitorVars, decideVars, threadVars,
                   engineVars, w_offer, w_my, w_real, w_api,
                   w_comp, w_source, w_tier, w_wake, w_optimal, w_fetches>>

(***************************************************************************)
(* The table's writers and the clock                                       *)
(***************************************************************************)
\* _monitoring_loop, lines 135-137: a scraped price > 0 is stored
MonitorStore(offer_id, price) ==
    /\ stores < MaxStores
    /\ HasPlid(product_config, offer_id)
    /\ price.v > 0
    /\ store' = StoreCompetitorPrice(store, offer_id, price, "background_monitor", now)
    /\ stores' = stores + 1
    /\ UNCHANGED <<product_config, processVars, monitorVars, decideVars, threadVars,
                   now, price_cache, last_request_time,
                   webhookVars>>

\* manual_update_price, lines 946-967: any truthy competitor_price is stored
ManualUpdatePrice(offer_id, price) ==
    /\ stores < MaxStores
    /\ Truthy(price)
    /\ store' = StoreCompetitorPrice(store, offer_id, price, "manual", now)
    /\ stores' = stores + 1
    /\ UNCHANGED <<product_config, processVars, monitorVars, decideVars, threadVars,
                   now, price_cache, last_request_time,
                   webhookVars>>

\* one second passes
Tick ==
    /\ (now - StartTime) % (PRICE_FRESHNESS_SECONDS - 1) < MaxSmallTicks
    /\ now' = now + 1
    /\ UNCHANGED <<product_config, processVars, monitorVars, decideVars, threadVars,
                   store, price_cache, last_request_time,
                   stores, webhookVars>>

\* one second less than the freshness window passes
LongTick ==
    /\ (now - StartTime) \div (PRICE_FRESHNESS_SECONDS - 1) < MaxBigTicks
    /\ now' = now + (PRICE_FRESHNESS_SECONDS - 1)
    /\ UNCHANGED <<product_config, processVars, monitorVars, decideVars, threadVars,
                   store, price_cache, last_request_time,
                   stores, webhookVars>>

Init ==
    /\ product_config = ServiceConfig
    /\ d_pc = "done"
    /\ d_my = Num(0)
    /\ d_comp = NoneVal
    /\ d_offer = ConfiguredOffer
    /\ d_result = NoneVal
    /\ EngineStart
    /\ WebhookStart
    /\ ThreadStart
    /\ MonitorCreated
    /\ ProcessStart

Next ==
    \/ \E o \in WebhookOffers, my \in WebhookMyPrices : Webhook(o, my)
    \/ InstantLookup
    \/ StoredLookup
    \/ CacheLookup
    \/ RateLimitCheck
    \/ RateLimitWake
    \/ RateLimitStamp
    \/ \E outcome \in LiveOutcomes : LiveFetch(outcome)
    \/ AfterFetch
    \/ SimulatedPrice
    \/ DecideStep
    \/ \E success \in BOOLEAN : SubmitAttempt(success)
    \/ \E o \in DOMAIN product_config, p \in LivePrices : MonitorStore(o, p)
    \/ \E o \in ManualOffers, p \in ManualPrices : ManualUpdatePrice(o, p)
    \/ Tick
    \/ LongTick

Spec == Init /\ [][Next]_vars

(***************************************************************************)
(* Request threads in get_real_competitor_price: the rate limit            *)
(* (_respect_rate_limit reads and writes last_request_time without a lock) *)
(***************************************************************************)
\* a request thread reaches get_real_competitor_price, line 441
ThreadEnter(t) ==
    /\ t_pc[t] = "idle"
    /\ t_pc' = [t_pc EXCEPT ![t] = "check"]
    /\ UNCHANGED <<product_config, processVars, monitorVars, decideVars, engineVars,
                   webhookVars, t_wake>>

\* the same when requests are served one after the other
ThreadEnterAlone(t) ==
    /\ \A u \in Threads : t_pc[u] = "idle"
    /\ ThreadEnter(t)

\* _respect_rate_limit, lines 664-670: read last_request_time, sleep if too recent
ThreadCheck(t) ==
    /\ t_pc[t] = "check"
    /\ LET time_since_last == now - last_request_time
       IN  IF TooSoon(time_since_last)
           THEN \E jitter \in JitterSeconds :
                    /\ t_wake' = [t_wake EXCEPT ![t] = now + SleepTime(time_since_last, jitter)]
                    /\ t_pc' = [t_pc EXCEPT ![t] = "sleeping"]
           ELSE /\ t_pc' = [t_pc EXCEPT ![t] = "stamp"]
                /\ UNCHANGED t_wake
    /\ UNCHANGED <<product_config, processVars, monitorVars, decideVars, engineVars, webhookVars>>

\* _respect_rate_limit, line 670: time.sleep(sleep_time) returns
ThreadWake(t) ==
    /\ t_pc[t] = "sleeping"
    /\ now >= t_wake[t]
    /\ t_pc' = [t_pc EXCEPT ![t] = "stamp"]
    /\ UNCHANGED <<product_config, processVars, monitorVars, decideVars, engineVars,
                   webhookVars, t_wake>>

\* _respect_rate_limit, line 672, and the API call that follows it (line 460)
ThreadStamp(t) ==
    /\ t_pc[t] = "stamp"
    /\ last_request_time' = now
    /\ last_fetch' = now
    /\ t_pc' = [t_pc EXCEPT ![t] = "fetch"]
    /\ UNCHANGED <<product_config, m_extra, m_orphans, m_starting, monitorVars, decideVars, now, store,
                   price_cache, stores,
                   webhookVars, t_wake>>

\* the API call returns and get_real_competitor_price with it
ThreadFetch(t) ==
    /\ t_pc[t] = "fetch"
    /\ t_pc' = [t_pc EXCEPT ![t] = "idle"]
    /\ t_wake' = [t_wake EXCEPT ![t] = 0]
    /\ UNCHANGED <<product_config, processVars, monitorVars, decideVars, engineVars, webhookVars>>

\* one second passes while threads are in the rate limit
WaitTick ==
    /\ now < StartTime + MaxWaitTicks
    /\ now' = now + 1
    /\ UNCHANGED <<product_config, processVars, monitorVars, decideVars, store, price_cache,
                   last_request_time,
                   stores, webhookVars, threadVars>>

ThreadStep(t) == ThreadCheck(t) \/ ThreadWake(t) \/ ThreadStamp(t) \/ ThreadFetch(t)

\* requests served one at a time
SerialNext ==
    \/ \E t \in Threads : ThreadEnterAlone(t)
    \/ \E t \in Threads : ThreadStep(t)
    \/ WaitTick

SerialSpec == Init /\ [][SerialNext]_vars

\* requests served concurrently, each in its thread
ConcurrentNext ==
    \/ \E t \in Threads : ThreadEnter(t)
    \/ \E t \in Threads : ThreadStep(t)
    \/ WaitTick

ConcurrentSpec == Init /\ [][ConcurrentNext]_vars

(***************************************************************************)
(* The webhook pipeline on the payloads a webhook can carry                *)
(***************************************************************************)
\* my_current_price when the payload carries no price (lines 760, 769-772)
MissingPrice == Num(0)

\* my_current_price as payloads carry it: whole, fractional, missing, not a number
PayloadPrices == {Rand(700), Num(64990), MissingPrice, TextVal}

\* competitor_price values POSTed to /monitoring/update-price: any truthy value
\* is stored, the string "we_own_buybox" included
ManualSignals == {OwnsBuybox}

\* what the product-details API call can end in, a failure included
FetchOutcomes == LiveOutcomes \cup {FetchError}

\* what the seller API does with a PATCH: 200, another status, or an error
ApiOutcomes == {"ok", "rejected", "exception"}

\* update_price: True on status 200, False otherwise (its own except returns False)
UpdatePrice(outcome) == outcome = "ok"

\* time.sleep (lines 670, 676): the clock runs to the end of the request's sleep
SleepThrough ==
    /\ w_pc \in {"sleeping", "simulating"}
    /\ now < w_wake
    /\ now' = w_wake
    /\ UNCHANGED <<product_config, processVars, monitorVars, decideVars, threadVars,
                   store, price_cache,
                   last_request_time, stores, webhookVars>>

PricingNext ==
    \/ \E o \in WebhookOffers, my \in PayloadPrices : Webhook(o, my)
    \/ InstantLookup
    \/ StoredLookup
    \/ CacheLookup
    \/ RateLimitCheck
    \/ RateLimitWake
    \/ RateLimitStamp
    \/ \E outcome \in FetchOutcomes : LiveFetch(outcome)
    \/ AfterFetch
    \/ SimulatedPrice
    \/ DecideStep
    \/ \E outcome \in ApiOutcomes : SubmitAttempt(UpdatePrice(outcome))
    \/ \E o \in DOMAIN product_config, p \in LivePrices : MonitorStore(o, p)
    \/ \E o \in ManualOffers, p \in ManualSignals : ManualUpdatePrice(o, p)
    \/ SleepThrough

PricingSpec == Init /\ [][PricingNext]_vars

\* a step of the request in progress, its sleeps included: the request's
\* thread runs, every time.sleep ends and every HTTP call returns or times out
RequestStep ==
    \/ InstantLookup
    \/ StoredLookup
    \/ CacheLookup
    \/ RateLimitCheck
    \/ RateLimitWake
    \/ RateLimitStamp
    \/ \E outcome \in FetchOutcomes : LiveFetch(outcome)
    \/ AfterFetch
    \/ SimulatedPrice
    \/ DecideStep
    \/ \E outcome \in ApiOutcomes : SubmitAttempt(UpdatePrice(outcome))
    \/ SleepThrough

AnsweringSpec == Init /\ [][PricingNext]_vars /\ WF_vars(RequestStep)

(***************************************************************************)
(* A decision, then webhooks that report the decided price as the current  *)
(* price                                                                   *)
(***************************************************************************)
\* my_price of the first decision: whole and fractional
EchoMyPrices == {Rand(700), Num(64990)}

\* the signals a lookup can resolve to: a live or stored price, the simulated
\* prices, our own buybox
EchoSignals ==
    LivePrices \cup {SimulateScraping(o) : o \in AllOffers} \cup ManualSignals

EchoInit ==
    /\ product_config = ServiceConfig
    /\ d_pc = "call"
    /\ d_my \in EchoMyPrices
    /\ d_comp \in EchoSignals
    /\ d_offer \in AllOffers
    /\ d_result = NoneVal
    /\ EngineStart
    /\ WebhookStart
    /\ ThreadStart
    /\ MonitorCreated
    /\ ProcessStart

\* a webhook for the offer of the decision whose my_current_price is the price
\* that was decided
WebhookEcho ==
    /\ d_pc = "done"
    /\ IsNum(d_result)
    /\ Webhook(d_offer, d_result)

EchoNext ==
    \/ Decide
    \/ WebhookEcho
    \/ RequestStep
    \/ \E o \in DOMAIN product_config, p \in LivePrices : MonitorStore(o, p)
    \/ \E o \in ManualOffers, p \in ManualSignals : ManualUpdatePrice(o, p)

EchoSpec == EchoInit /\ [][EchoNext]_vars

(***************************************************************************)
(* The monitoring loop (PriceMonitor._monitoring_loop, one thread) beside  *)
(* a request thread's live fetches and the manual writer of the table     *)
(***************************************************************************)
\* the configuration when two rows load: both offers are products with a PLID
MonitorConfig ==
    ("1001" :> Policy(515 * CentsPerRand, 714 * CentsPerRand))
    @@ ("1003" :> Policy(515 * CentsPerRand, 714 * CentsPerRand))

\* the order of the rows
OfferOrder == <<"1001", "1003">>

\* product_list = list(self.product_config.keys())
ProductList(config) == SelectSeq(OfferOrder, LAMBDA o : o \in DOMAIN config)

MONITORING_INTERVAL_SECONDS == 30 * 60

\* time.sleep(2) after a product
ProductPause == 2

\* what the API call of _direct_scrape_price can end in: a price, no price, an
\* error, and from a core price that is a bare number (line 236) a price that
\* is zero or negative
ScrapeOutcomes == LivePrices \cup {NoneVal, FetchError, Num(0), Num(-CentsPerRand)}

\* _direct_scrape_price: None without a PLID, None on any error, else the
\* lowest price found (or None)
DirectScrapePrice(config, offer_id, outcome) ==
    IF HasPlid(config, offer_id) THEN FetchResult(outcome) ELSE NoneVal

\* if competitor_price and competitor_price > 0, line 136
WorthStoringTruthy(competitor_price) == Truthy(competitor_price)

WorthStoring(competitor_price) == Truthy(competitor_price) /\ competitor_price.v > 0

\* where the loop stands after a product, whatever became of it (lines 132-142)
AbortOnFailure(competitor_price, stored) ==
    IF Truthy(competitor_price) /\ stored THEN "pause" ELSE "ended"

LoopAfterProduct(competitor_price, stored) == "pause"

\* engine.start_background_monitoring -> start_monitoring: returns at once when
\* monitoring is on or no product is configured, else starts the loop thread
\* (a start while a stopped loop's thread is still alive is left out)
StartMonitoring ==
    /\ ~is_monitoring
    /\ m_pc \in {"off", "ended"}
    /\ ProductList(product_config) # <<>>
    /\ is_monitoring' = TRUE
    /\ m_pc' = "cycle"
    /\ UNCHANGED <<product_config, processVars, decideVars, engineVars, webhookVars, threadVars,
                   m_idx, m_wake, m_fetch, m_price, m_cycles>>

\* stop_monitoring, line 258
StopMonitoring ==
    /\ is_monitoring
    /\ is_monitoring' = FALSE
    /\ UNCHANGED <<product_config, processVars, decideVars, engineVars, webhookVars, threadVars,
                   m_pc, m_idx, m_wake, m_fetch, m_price, m_cycles>>

\* the while of line 126 if it went on whatever is_monitoring says
MonitorCycleRegardless ==
    /\ m_pc = "cycle"
    /\ m_cycles < MaxCycles
    /\ m_pc' = "product" /\ m_idx' = 1 /\ m_cycles' = m_cycles + 1
    /\ UNCHANGED <<product_config, processVars, decideVars, engineVars, webhookVars, threadVars,
                   is_monitoring, m_wake, m_fetch, m_price>>

\* while self.is_monitoring (line 126): a cycle starts, or the thread ends
MonitorCycle ==
    /\ m_pc = "cycle"
    /\ is_monitoring => m_cycles < MaxCycles
    /\ IF is_monitoring
       THEN m_pc' = "product" /\ m_idx' = 1 /\ m_cycles' = m_cycles + 1
       ELSE m_pc' = "ended" /\ UNCHANGED <<m_idx, m_cycles>>
    /\ UNCHANGED <<product_config, processVars, decideVars, engineVars, webhookVars, threadVars,
                   is_monitoring, m_wake, m_fetch, m_price>>

\* lines 135-139 for the product at m_idx: the scrape (its API call is made
\* at once, no rate limit), the store of a price > 0, then time.sleep(2)
ScrapeAndStore(outcome, stored) ==
    /\ LET offer_id == ProductList(product_config)[m_idx]
           competitor_price == DirectScrapePrice(product_config, offer_id, outcome)
       IN  /\ m_fetch' = IF HasPlid(product_config, offer_id) THEN now ELSE m_fetch
           /\ store' = IF WorthStoring(competitor_price) /\ stored
                       THEN StoreCompetitorPrice(store, offer_id, competitor_price,
                                                 "background_monitor", now)
                       ELSE store
           /\ m_price' = competitor_price
           /\ m_pc' = LoopAfterProduct(competitor_price, stored)
    /\ m_idx' = m_idx + 1
    /\ m_wake' = now + ProductPause
    /\ UNCHANGED <<product_config, processVars, decideVars, webhookVars, threadVars, now,
                   price_cache,
                   last_request_time, stores, is_monitoring, m_cycles>>

\* lines 130-139 in one step: the check of is_monitoring and the iteration
MonitorScrape(outcome, stored) ==
    /\ m_pc = "product"
    /\ is_monitoring
    /\ m_idx <= Len(ProductList(product_config))
    /\ ScrapeAndStore(outcome, stored)

\* lines 130-132 alone: is_monitoring is on, the iteration is entered
MonitorEnter ==
    /\ m_pc = "product"
    /\ is_monitoring
    /\ m_idx <= Len(ProductList(product_config))
    /\ m_pc' = "scrape"
    /\ UNCHANGED <<product_config, processVars, decideVars, engineVars, webhookVars, threadVars,
                   is_monitoring, m_idx, m_wake, m_fetch, m_price, m_cycles>>

\* lines 135-139 of an iteration that was entered, whatever is_monitoring is now
MonitorFetch(outcome, stored) ==
    /\ m_pc = "scrape"
    /\ ScrapeAndStore(outcome, stored)

\* time.sleep(2) returns: the for loop takes the next product, whose scrape
\* assigns competitor_price before it is read again
MonitorResume ==
    /\ m_pc = "pause"
    /\ now >= m_wake
    /\ m_pc' = "product"
    /\ m_price' = NoneVal
    /\ UNCHANGED <<product_config, processVars, decideVars, engineVars, webhookVars, threadVars,
                   is_monitoring, m_idx, m_wake, m_fetch, m_cycles>>

\* the for loop ends (no product left, or the break of line 132), lines 144-146
MonitorCycleEnd ==
    /\ m_pc = "product"
    /\ m_idx > Len(ProductList(product_config)) \/ ~is_monitoring
    /\ IF is_monitoring
       THEN /\ m_pc' = "cycle_sleep"
            /\ m_wake' = now + MONITORING_INTERVAL_SECONDS
       ELSE /\ m_pc' = "cycle"
            /\ UNCHANGED m_wake
    /\ UNCHANGED <<product_config, processVars, decideVars, engineVars, webhookVars, threadVars,
                   is_monitoring, m_idx, m_fetch, m_price, m_cycles>>

\* time.sleep(interval_minutes * 60) returns
MonitorNextCycle ==
    /\ m_pc = "cycle_sleep"
    /\ now >= m_wake
    /\ m_pc' = "cycle"
    /\ UNCHANGED <<product_config, processVars, decideVars, engineVars, webhookVars, threadVars,
                   is_monitoring, m_idx, m_wake, m_fetch, m_price, m_cycles>>

\* time.sleep (lines 139, 146): the clock runs to the end of the loop's sleep
MonitorSleepThrough ==
    /\ m_pc \in {"pause", "cycle_sleep"}
    /\ now < m_wake
    /\ now' = m_wake
    /\ UNCHANGED <<product_config, processVars, decideVars, webhookVars, threadVars, monitorVars,
                   store, price_cache, last_request_time, stores>>

MonitorInit ==
    /\ product_config = MonitorConfig
    /\ d_pc = "done"
    /\ d_my = Num(0)
    /\ d_comp = NoneVal
    /\ d_offer = ConfiguredOffer
    /\ d_result = NoneVal
    /\ EngineStart
    /\ WebhookStart
    /\ ThreadStart
    /\ MonitorCreated
    /\ ProcessStart

\* the request thread whose live fetches run beside the loop
ResolveThread == 1

MonitorNext ==
    \/ ThreadEnter(ResolveThread)
    \/ ThreadStep(ResolveThread)
    \/ \E o \in ManualOffers, p \in ManualSignals : ManualUpdatePrice(o, p)
    \/ StartMonitoring
    \/ StopMonitoring
    \/ MonitorCycle
    \/ \E outcome \in ScrapeOutcomes, stored \in BOOLEAN : MonitorScrape(outcome, stored)
    \/ MonitorResume
    \/ MonitorCycleEnd
    \/ MonitorNextCycle
    \/ MonitorSleepThrough

MonitorSpec == MonitorInit /\ [][MonitorNext]_vars

(***************************************************************************)
(* The monitoring loop alone, its iteration in two steps, with start and   *)
(* stop; the loop's thread is scheduled and its sleeps return              *)
(***************************************************************************)
LoopStep ==
    \/ MonitorCycle
    \/ MonitorEnter
    \/ \E outcome \in ScrapeOutcomes, stored \in BOOLEAN : MonitorFetch(outcome, stored)
    \/ MonitorResume
    \/ MonitorCycleEnd
    \/ MonitorNextCycle
    \/ MonitorSleepThrough

StoppingNext ==
    \/ StartMonitoring
    \/ StopMonitoring
    \/ LoopStep

StoppingSpec == MonitorInit /\ [][StoppingNext]_vars /\ WF_vars(LoopStep)

(***************************************************************************)
(* Starting, stopping and reloading while loop threads are alive           *)
(***************************************************************************)
\* loop threads beside the one the model follows step by step, at most
MaxLoops == 2

\* start_monitoring calls in progress at once, at most
MaxStarting == 2

\* start_background_monitoring (368-372) and line 111 of start_monitoring: the
\* call goes on when a product is configured and is_monitoring reads False
StartCheck ==
    /\ ProductList(product_config) # <<>>
    /\ ~is_monitoring
    /\ m_starting < MaxStarting
    /\ m_starting' = m_starting + 1
    /\ UNCHANGED <<product_config, decideVars, engineVars, webhookVars, threadVars, monitorVars,
                   m_extra, m_orphans, last_fetch>>

\* lines 115-121 of a start_monitoring call that passed line 111: the flag is
\* set and a new loop thread is started, whatever threads are alive
StartThread ==
    /\ m_starting > 0
    /\ m_starting' = m_starting - 1
    /\ is_monitoring' = TRUE
    /\ IF m_pc \in {"off", "ended"}
       THEN m_pc' = "cycle" /\ UNCHANGED m_extra
       ELSE /\ m_extra + m_orphans < MaxLoops
            /\ m_extra' = m_extra + 1
            /\ UNCHANGED m_pc
    /\ UNCHANGED <<product_config, decideVars, engineVars, webhookVars, threadVars,
                   m_idx, m_wake, m_fetch, m_price, m_cycles, m_orphans, last_fetch>>

\* a further loop thread of the current PriceMonitor finds is_monitoring off
\* and ends
ExtraLoopExits ==
    /\ ~is_monitoring
    /\ m_extra > 0
    /\ m_extra' = m_extra - 1
    /\ UNCHANGED <<product_config, decideVars, engineVars, webhookVars, threadVars, monitorVars,
                   m_orphans, m_starting, last_fetch>>

\* the loop threads of the current PriceMonitor that are alive
MonitorLoops == (IF m_pc \in {"off", "ended"} THEN 0 ELSE 1) + m_extra

\* /force-reload-products, line 1075: engine = TakealotRepricingEngine(). The
\* new engine has an empty price_cache, last_request_time 0 and a new
\* PriceMonitor whose is_monitoring is False; the table is a file and stays.
\* Nothing stops the loops of the PriceMonitor that was replaced: with its
\* is_monitoring on they run on (with it off they are on their way out and are
\* not counted).  Taken between requests and between start calls.
ForceReload ==
    /\ w_pc = "idle"
    /\ m_starting = 0
    /\ m_orphans + (IF is_monitoring THEN MonitorLoops ELSE 0) <= MaxLoops
    /\ price_cache' = [o \in AllOffers |-> NoEntry]
    /\ last_request_time' = 0
    /\ m_orphans' = m_orphans + (IF is_monitoring THEN MonitorLoops ELSE 0)
    /\ m_extra' = 0
    /\ is_monitoring' = FALSE
    /\ m_pc' = "off"
    /\ m_idx' = 1
    /\ m_wake' = 0
    /\ m_fetch' = 0
    /\ m_price' = NoneVal
    /\ UNCHANGED <<product_config, decideVars, webhookVars, threadVars, now, store, stores,
                   m_cycles, m_starting, last_fetch>>

LoopsNext ==
    \/ StartCheck
    \/ StartThread
    \/ StopMonitoring
    \/ ExtraLoopExits
    \/ ForceReload
    \/ LoopStep

LoopsSpec == MonitorInit /\ [][LoopsNext]_vars

\* requests with a reload between them
ReloadNext ==
    \/ PricingNext
    \/ ForceReload

ReloadSpec == Init /\ [][ReloadNext]_vars

(***************************************************************************)
(* Loading products_config.csv, and a decision on what was loaded          *)
(***************************************************************************)
\* the min_price and max_price cells of a row: two prices, and a cell that is
\* not a number
CsvPrices == {Rand(515), Rand(714), TextVal}

\* a row: offer_id, min_price, max_price (its product_url carries a PLID)
CsvRows == [offer_id : AllOffers, min_price : CsvPrices, max_price : CsvPrices]

CsvFiles == UNION {[1..n -> CsvRows] : n \in 0..MaxRows}

\* float(row["min_price"]): a cell that is not a number raises
PyFloat(x) == IF IsNum(x) THEN x ELSE Raise

\* the body of the row loop, lines 321-340, when the row's statements run to
\* the end: the row becomes config_dict[offer_id] (a later row of the same
\* offer replaces an earlier one); a row whose float() raises is skipped
\* (except of line 347)
LoadRow(config_dict, row) ==
    IF PyFloat(row.min_price) = Raise \/ PyFloat(row.max_price) = Raise
    THEN config_dict
    ELSE (row.offer_id :> [min_price |-> PyFloat(row.min_price),
                           max_price |-> PyFloat(row.max_price),
                           plid |-> TRUE]) @@ config_dict

RECURSIVE LoadRows(_, _)
LoadRows(config_dict, rows) ==
    IF rows = <<>> THEN config_dict
    ELSE LoadRows(LoadRow(config_dict, Head(rows)), Tail(rows))

\* _load_product_config: config_dict = {} and the loop over the rows
LoadProductConfig(rows) == LoadRows(<<>>, rows)

LoadInit ==
    /\ product_config \in {LoadProductConfig(rows) : rows \in CsvFiles}
    /\ d_pc = "call"
    /\ d_my \in WebhookMyPrices
    /\ d_comp \in ScenarioCompetitors
    /\ d_offer \in AllOffers
    /\ d_result = NoneVal
    /\ EngineStart
    /\ WebhookStart
    /\ ThreadStart
    /\ MonitorCreated
    /\ ProcessStart

LoadNext == Decide

LoadSpec == LoadInit /\ [][LoadNext]_vars

(***************************************************************************)
(* The decision called directly while webhooks are served                  *)
(***************************************************************************)
\* arguments of the direct call: those a webhook's decision can meet
DirectMyPrices == {Rand(700)}

DirectCompetitors == LivePrices \cup {SimulateScraping(ConfiguredOffer)}

PureInit ==
    /\ product_config = ServiceConfig
    /\ d_pc = "call"
    /\ d_my \in DirectMyPrices
    /\ d_comp \in DirectCompetitors
    /\ d_offer = ConfiguredOffer
    /\ d_result = NoneVal
    /\ EngineStart
    /\ WebhookStart
    /\ ThreadStart
    /\ MonitorCreated
    /\ ProcessStart

PureNext == Decide \/ PricingNext

PureSpec == PureInit /\ [][PureNext]_vars

(***************************************************************************)
(* Claims about the decision (checked under DecideSpec)                    *)
(***************************************************************************)
\* the thresholds of the call, in whole units as the decision compares them
d_min == TruncCents(GetProductThresholds(product_config, d_offer)[1].v)

d_max == TruncCents(GetProductThresholds(product_config, d_offer)[2].v)

\* the call returned (my_price was a number, so int(my_price) did not raise)
DecideReturned == d_pc = "done" /\ IsNum(d_my)

WholeUnits(c) == c % CentsPerRand = 0

\* C1: for every integer competitor price c with min_price <= c, the call
\* returns c-1 when min_price <= c-1 <= max_price and max_price otherwise
\* (min_price and max_price in whole units, as the decision compares them).
C1_UndercutOrClamp ==
    (DecideReturned /\ IsNum(d_comp) /\ WholeUnits(d_comp.v) /\ d_min <= d_comp.v)
    => d_result = IF d_min <= d_comp.v - CentsPerRand /\ d_comp.v - CentsPerRand <= d_max
                  THEN Num(d_comp.v - CentsPerRand)
                  ELSE Num(d_max)

\* competitor 516 with min 515, max 714 gave 515
C1_Witness ==
    /\ d_pc = "done" /\ d_offer = ConfiguredOffer /\ d_my = Rand(700)
    /\ product_config[ConfiguredOffer] = Policy(515 * CentsPerRand, 714 * CentsPerRand)
    /\ d_comp = Rand(516) /\ d_result = Rand(515)

\* C2: for every positive competitor price strictly below min_price the call
\* returns max_price, whatever my_price is.
C2_BelowMinReverts ==
    (/\ DecideReturned /\ IsNum(d_comp) /\ d_comp.v > 0
     /\ \/ d_comp.v < GetProductThresholds(product_config, d_offer)[1].v
        \/ TruncCents(d_comp.v) < d_min)
    => d_result = Num(d_max)

\* competitor 500 with min 515, max 714 gave 714
C2_Witness ==
    /\ d_pc = "done" /\ d_offer = ConfiguredOffer /\ d_my = Rand(700)
    /\ product_config[ConfiguredOffer] = Policy(515 * CentsPerRand, 714 * CentsPerRand)
    /\ d_comp = Rand(500) /\ d_result = Rand(714)

\* C3: when the competitor signal is "we_own_buybox" the call returns my_price
\* (in whole units: 500.9 comes back as 500), for every my_price and thresholds.
C3_OwnBuyboxKeepsPrice ==
    (DecideReturned /\ d_comp = OwnsBuybox) => d_result = Num(TruncCents(d_my.v))

\* my_price 700 came back as 700 although the thresholds are 1.90 / 0
C3_Witness ==
    /\ d_pc = "done" /\ d_offer = ConfiguredOffer /\ d_my = Rand(700)
    /\ product_config[ConfiguredOffer] = Policy(190, 0)
    /\ d_comp = OwnsBuybox /\ d_result = Rand(700)

\* C4 (as claimed): for every competitor signal that is absent or not a
\* positive number and is not the sentinel, the call returns max_price and
\* does not raise.
C4_InvalidSignalReverts ==
    (DecideReturned /\ d_comp # OwnsBuybox /\ ~(IsNum(d_comp) /\ d_comp.v > 0))
    => d_result = Num(d_max)

\* C5 (as claimed): the returned price is never below the product's min_price,
\* for every my_price, competitor signal and policy.
C5_NeverBelowMin ==
    (DecideReturned /\ IsNum(d_result)) => d_result.v >= d_min

\* C5 (amended): for every competitor signal other than "we_own_buybox" the
\* returned price is never below the smaller of min_price and max_price, hence
\* never below min_price when min_price <= max_price; with "we_own_buybox" the
\* returned price is my_price, whatever min_price is.
C5_FloorUnlessOwnBuybox ==
    (DecideReturned /\ IsNum(d_result))
    => IF d_comp = OwnsBuybox
       THEN d_result.v = TruncCents(d_my.v)
       ELSE d_result.v >= (IF d_min <= d_max THEN d_min ELSE d_max)

\* competitor 2.90 with min 1, max 3 gave exactly the floor, 1
C5_Witness ==
    /\ d_pc = "done" /\ d_offer = ConfiguredOffer /\ d_my = Rand(0)
    /\ product_config[ConfiguredOffer] = Policy(100, 300)
    /\ d_comp = Num(290) /\ d_result = Rand(1)

(***************************************************************************)
(* Claims about the competitor price lookup and the pipeline (under Spec)  *)
(***************************************************************************)
\* get_competitor_price_instant has returned for the request in w_offer
LookupReturned == w_pc \in {"decide", "submit"} \/ (w_pc = "idle" /\ w_status \notin {"", "400"})

\* the age of the stored record of the request's product
StoredAge == now - store[w_offer].last_updated

\* the age of the cache entry of the request's product
CachedAge == now - price_cache[w_offer].timestamp

\* C6 (as claimed): when the lookup came to a live fetch that failed or gave
\* nothing usable, it returns an absent signal, and the signal it returns is
\* never a number derived from a hash of the product identifier.
C6_AbsentWhenFetchFails ==
    /\ (LookupReturned /\ w_fetches > 0 /\ w_real = NoneVal) => w_comp = NoneVal
    /\ LookupReturned => w_comp \notin {SimulateScraping(w_offer), GetFallbackPrice(w_offer)}

\* C7 (as claimed): a webhook for a product with no entry in product_config
\* ends with no price decided and no price update submitted.
C7_UnconfiguredProductSkipped ==
    (w_offer # NoOffer /\ w_offer \notin DOMAIN product_config)
    => (w_optimal = NoneVal /\ w_submits = 0 /\ w_pc # "submit")

\* C8: if the stored record of the product is younger than the freshness
\* window when get_competitor_price_instant looks it up, the lookup returns
\* that record's price labelled proactive_monitoring at once (no cache
\* lookup, no live fetch), and the request then leaves the cache and
\* last_request_time as they are.
C8_FreshRecordReturnedAtOnce ==
    [][/\ (w_pc = "instant" /\ w_pc' # "instant" /\ store[w_offer] # NoRecord
           /\ StoredAge < PRICE_FRESHNESS_SECONDS)
          => (/\ w_comp' = store[w_offer].price
              /\ w_source' = "proactive_monitoring"
              /\ w_pc' = "decide"
              /\ w_fetches' = 0)
       /\ (w_source = "proactive_monitoring" /\ w_source' = w_source)
          => (/\ price_cache' = price_cache
              /\ last_request_time' = last_request_time
              /\ w_fetches' = 0
              /\ w_pc' \notin {"stored", "cache", "ratelimit", "sleeping", "stamp", "fetch",
                              "fetched", "simulating"})]_vars

\* a record stored 3599 s ago was returned as the monitored price, cache and
\* last_request_time untouched
C8_Witness ==
    /\ w_pc = "decide" /\ w_source = "proactive_monitoring"
    /\ StoredAge = PRICE_FRESHNESS_SECONDS - 1
    /\ w_comp = store[w_offer].price
    /\ price_cache[w_offer] = NoEntry /\ last_request_time = 0

\* C9: a stored record is used if and only if its age is strictly less than
\* 3600 s: both lookups of the table (get_competitor_price_instant and
\* get_competitor_price) return a younger record's price, pass an older one by
\* and go on to the next tier, and no stored price of age 3600 s or more is
\* ever returned.
C9_StoredRecordUsedIffFresh ==
    [][/\ (w_pc \in {"instant", "stored"} /\ w_pc' # w_pc /\ store[w_offer] # NoRecord)
          => IF StoredAge < 3600
             THEN w_comp' = store[w_offer].price /\ w_tier' = "stored" /\ w_pc' = "decide"
             ELSE /\ w_pc' = (IF w_pc = "instant" THEN "stored" ELSE "cache")
                  /\ w_comp' = NoneVal /\ w_tier' = ""
       /\ (w_tier # "stored" /\ w_tier' = "stored")
          => (store[w_offer] # NoRecord /\ StoredAge < 3600 /\ StoredAge <= 3599)]_vars

\* a record stored 3601 s ago was passed by twice: the request is at the cache
C9_Witness ==
    /\ w_pc = "cache" /\ store[w_offer] # NoRecord
    /\ StoredAge = 3601

\* a record stored 3599 s ago was returned
C9_WitnessFresh ==
    /\ w_pc = "decide" /\ w_tier = "stored" /\ StoredAge = 3599
    /\ w_comp = store[w_offer].price

\* C10: when no fresh stored record was found and the cache holds an entry for
\* the product younger than cache_ttl, the lookup returns the cached price
\* without a live fetch; an entry of age cache_ttl or more is never returned.
C10_CachedPriceUsedIffUnexpired ==
    [][/\ (w_pc = "cache" /\ w_pc' # "cache" /\ price_cache[w_offer].cached)
          => IF CachedAge < cache_ttl
             THEN /\ w_comp' = price_cache[w_offer].price /\ w_tier' = "cache"
                  /\ w_pc' = "decide" /\ w_fetches' = 0
                  /\ last_request_time' = last_request_time
             ELSE w_pc' = "ratelimit" /\ w_comp' = NoneVal /\ w_tier' = ""
       /\ (w_tier # "cache" /\ w_tier' = "cache")
          => (price_cache[w_offer].cached /\ CachedAge < cache_ttl)
       /\ (w_tier = "cache" /\ w_tier' = "cache") => w_fetches' = 0]_vars

\* the second request for a product was answered from the cache, no fetch made
C10_Witness ==
    /\ w_pc = "decide" /\ w_tier = "cache" /\ served = 1
    /\ w_comp = price_cache[w_offer].price /\ w_fetches = 0
    /\ MonitorGet(store, w_offer, now) = NoneVal

\* an entry of age exactly cache_ttl was passed by
C10_WitnessExpired ==
    /\ w_pc = "ratelimit" /\ price_cache[w_offer].cached /\ CachedAge = cache_ttl

\* C11 (as claimed): when the live fetch returns a positive price p, the step
\* that returns p leaves the cache entry of the product holding p with the
\* current timestamp and the stored record of the product holding p as well.
C11_LivePriceCachedAndStored ==
    [][(w_pc = "fetched" /\ IsNum(w_real) /\ w_real.v > 0 /\ w_pc' # "fetched")
       => (/\ w_comp' = w_real
           /\ price_cache'[w_offer] = [price |-> w_real, timestamp |-> now', cached |-> TRUE]
           /\ store'[w_offer].price = w_real)]_vars

\* C12 (as claimed): when the live fetch returns "we_own_buybox", the lookup
\* returns the sentinel and leaves the cache and the stored-price table as
\* they are.
C12_SentinelReturnedNothingCached ==
    [][(w_pc = "fetched" /\ w_real = OwnsBuybox /\ w_pc' # "fetched")
       => (/\ w_comp' = OwnsBuybox
           /\ price_cache' = price_cache
           /\ store' = store)]_vars

\* C13 (as claimed): the label returned with the signal identifies the tier
\* that supplied it: the monitored label goes with a stored record and only
\* with it, the other label with a live fetch and only with it.
C13_LabelIdentifiesTier ==
    LookupReturned
    => (/\ (w_source = "proactive_monitoring") <=> (w_tier = "stored")
        /\ (w_source = "real_time_scraping") <=> (w_tier = "live"))

(***************************************************************************)
(* Claims about the rate limit (under SerialSpec and ConcurrentSpec)       *)
(***************************************************************************)
\* C14: with resolve calls made one after the other, a live fetch is started
\* only when at least min_request_interval seconds have passed since the
\* previous one was started (last_request_time), and a call that comes sooner
\* sleeps at least until that moment before it fetches.
C14_FetchesSpaced ==
    [][\A t \in Threads :
          /\ (t_pc[t] = "stamp" /\ t_pc'[t] = "fetch")
             => now - last_request_time >= MIN_REQUEST_INTERVAL
          /\ (t_pc[t] = "check" /\ t_pc'[t] # "check"
              /\ now - last_request_time < MIN_REQUEST_INTERVAL)
             => (/\ t_pc'[t] = "sleeping"
                 /\ t_wake'[t] >= last_request_time + MIN_REQUEST_INTERVAL)]_vars

\* a call that came at once after a fetch slept and started its own fetch
\* four seconds after the previous one
C14_Witness ==
    \E t \in Threads :
        /\ t_pc[t] = "fetch" /\ t_wake[t] = now /\ last_request_time = now
        /\ now = StartTime + MIN_REQUEST_INTERVAL + 1

\* C15 (as claimed): with resolve calls running concurrently in different
\* threads, every live fetch is still started at least min_request_interval
\* seconds after the one started before it.
C15_ConcurrentFetchesSpaced ==
    [][\A t \in Threads :
          (t_pc[t] # "fetch" /\ t_pc'[t] = "fetch")
          => last_request_time' - last_request_time >= MIN_REQUEST_INTERVAL]_vars

(***************************************************************************)
(* Claims about the webhook's decision and submission (under PricingSpec)  *)
(***************************************************************************)
\* C16 (as claimed): update_price_with_retry is invoked only when the decided
\* price differs from my current price truncated to a whole number; when the
\* two are equal the outcome is no_change and nothing is submitted.
C16_SubmittedOnlyWhenChanged ==
    /\ (w_pc = "submit" \/ w_submits > 0) => w_optimal # PyInt(w_my)
    /\ (w_pc = "idle" /\ IsNum(w_optimal) /\ w_optimal = PyInt(w_my))
       => (w_status = "no_change" /\ w_submits = 0)

\* C17 (as claimed): when the lookup returned "we_own_buybox" the webhook
\* makes no price-update submission, whatever my current price is.
C17_OwnBuyboxNotSubmitted ==
    (LookupReturned /\ w_comp = OwnsBuybox) => (w_pc # "submit" /\ w_submits = 0)

\* C18: update_price_with_retry calls update_price at most max_retries times;
\* when every call fails (a False result, or an exception inside update_price)
\* it returns False after exactly max_retries calls, and the request ends with
\* a status, never with an error.
C18_RetriesBounded ==
    /\ w_submits <= max_retries
    /\ w_pc = "submit" => w_submits < max_retries
    /\ w_status = "update_failed" => w_submits = max_retries
    /\ (w_pc = "idle" /\ w_submits > 0) => w_status \in {"updated", "update_failed"}

\* three calls failed and the request answered update_failed
C18_Witness ==
    w_pc = "idle" /\ w_status = "update_failed" /\ w_submits = max_retries

\* C19: a webhook without an offer_id is answered 400 in the step that reads
\* it, and that step leaves the table, the cache, last_request_time unchanged
\* and makes no fetch and no submission; a request is never in progress
\* without an offer_id.
C19_MissingOfferRejected ==
    [][/\ (w_pc = "idle" /\ (served' = served + 1 \/ w_pc' = "instant") /\ w_offer' = NoOffer)
          => (/\ w_status' = "400" /\ w_pc' = "idle"
              /\ store' = store /\ price_cache' = price_cache
              /\ last_request_time' = last_request_time
              /\ w_fetches' = 0 /\ w_submits' = 0)
       /\ w_pc' # "idle" => w_offer' # NoOffer]_vars

\* the second webhook had no offer_id and was answered 400 while the cache
\* kept the entry the first one made
C19_Witness ==
    /\ w_pc = "idle" /\ w_status = "400" /\ w_offer = NoOffer /\ served = 2
    /\ \E o \in AllOffers : price_cache[o].cached

\* C20 (as claimed): a webhook whose current price is missing or not a number
\* is answered 400 at once: it is never in progress, and it has made no
\* fetch and no submission.
C20_BadPriceRejected ==
    (w_offer # NoOffer /\ (w_my = MissingPrice \/ ~IsNum(w_my)))
    => (w_pc = "idle" /\ w_status = "400" /\ w_fetches = 0 /\ w_submits = 0)

(***************************************************************************)
(* Claims about the decision's inputs (checked under DecideSpec)           *)
(***************************************************************************)
\* C22: for every competitor signal other than OwnsBuybox and every policy,
\* the call returns what it returns for any other numeric my_price, a
\* my_price equal to the competitor's price included.
C22_MyPriceIrrelevant ==
    (DecideReturned /\ d_comp # OwnsBuybox)
    => \A my_price \in DecideMyPrices :
           IsNum(my_price)
           => CalculateOptimalPrice(product_config, my_price, d_comp, d_offer) = d_result

\* my_price equals the competitor's price, and the call still undercut it
C22_Witness ==
    /\ DecideReturned /\ IsNum(d_comp) /\ d_my = d_comp
    /\ WholeUnits(d_comp.v) /\ d_result = Num(d_comp.v - CentsPerRand)

\* a price without its fractional part (toward zero)
WholePart(c) == IF c >= 0 THEN c - (c % CentsPerRand) ELSE -((-c) - ((-c) % CentsPerRand))

WholeValue(x) == IF IsNum(x) THEN Num(WholePart(x.v)) ELSE x

WholePolicy(config) ==
    [o \in DOMAIN config |->
        [config[o] EXCEPT !.min_price = WholeValue(@), !.max_price = WholeValue(@)]]

\* C23: the call returns what it returns when my_price, the competitor's
\* price, min_price and max_price are replaced by their whole-unit parts
\* (so inputs that differ only in the fractional part give the same price),
\* and a returned price is a whole number of units.
C23_TruncatedFirst ==
    DecideReturned
    => (/\ d_result = CalculateOptimalPrice(WholePolicy(product_config), WholeValue(d_my),
                                            WholeValue(d_comp), d_offer)
        /\ IsNum(d_result) => WholeUnits(d_result.v))

\* my_price, the competitor's price and min_price all had a fractional part
\* and the call undercut the competitor's whole-unit price by one unit
C23_Witness ==
    /\ DecideReturned /\ IsNum(d_comp) /\ d_offer = ConfiguredOffer
    /\ ~WholeUnits(d_my.v) /\ ~WholeUnits(d_comp.v)
    /\ ~WholeUnits(product_config[ConfiguredOffer].min_price.v)
    /\ d_result = Num(WholePart(d_comp.v) - CentsPerRand)

(***************************************************************************)
(* Claims about the live fetch and the cache (checked under PricingSpec)   *)
(***************************************************************************)
\* the request's lookup has returned after its live fetch
FetchedAndReturned == w_fetches > 0 /\ w_pc \in {"decide", "submit", "idle"}

\* C21: an error of the API call during a live fetch does not leave
\* get_real_competitor_price: the fetch returns None, the lookup raises
\* nothing, and it returns what it returns when the API found no price (the
\* simulated price, with the same label).
C21_FetchErrorIsNoPrice ==
    /\ w_real # Raise /\ w_comp # Raise
    /\ w_api = FetchError => w_real = NoneVal
    /\ (FetchedAndReturned /\ w_api \in {FetchError, NoneVal})
       => (/\ w_comp = SimulateScraping(w_offer)
           /\ w_source = "real_time_scraping"
           /\ w_tier = "simulated")

\* the API call failed and the lookup returned the simulated price
C21_Witness ==
    w_api = FetchError /\ w_pc = "decide" /\ w_tier = "simulated" /\ IsNum(w_comp)

\* C26 (as claimed): every cache entry holds a price that a live fetch
\* returned; no simulated price is cached.
C26_CacheHoldsLivePrices ==
    \A o \in AllOffers : price_cache[o].cached => price_cache[o].price \in LivePrices

(***************************************************************************)
(* Claims about the decision as a function (checked under PureSpec)        *)
(***************************************************************************)
\* the webhook's decision and the direct call have the same arguments
SameArguments == w_my = d_my /\ w_comp = d_comp /\ w_offer = d_offer

C27_LoopFetchesPaced ==
    [][/\ m_fetch' # m_fetch
          => (last_request_time = 0 \/ now - last_request_time >= MIN_REQUEST_INTERVAL)
       /\ \A t \in Threads :
              (t_pc[t] = "stamp" /\ t_pc'[t] = "fetch")
              => (m_fetch = 0 \/ now - m_fetch >= MIN_REQUEST_INTERVAL)]_vars

\* C28: while monitoring stays enabled, the step of the loop for a product
\* ends in the pause before the next product whatever the scrape and the
\* store did, the pause ends at the next product, and after the last product
\* the loop sleeps and then starts the next cycle at the first product.
C28_LoopGoesOn ==
    [][/\ (m_pc = "product" /\ is_monitoring /\ m_idx <= Len(ProductList(product_config))
           /\ m_pc' # "product")
          => (m_pc' = "pause" /\ m_idx' = m_idx + 1 /\ is_monitoring')
       /\ (m_pc = "pause" /\ m_pc' # "pause") => (m_pc' = "product" /\ m_idx' = m_idx)
       /\ (m_pc = "product" /\ is_monitoring /\ m_idx > Len(ProductList(product_config))
           /\ m_pc' # "product")
          => m_pc' = "cycle_sleep"
       /\ (m_pc = "cycle_sleep" /\ m_pc' # "cycle_sleep") => m_pc' = "cycle"
       /\ (m_pc = "cycle" /\ is_monitoring /\ m_pc' # "cycle")
          => (m_pc' = "product" /\ m_idx' = 1)]_vars

\* in its second cycle the loop is at the second product, after the first
\* product failed in both cycles and the second was stored
C28_Witness ==
    /\ is_monitoring /\ m_cycles = 2 /\ m_pc = "product" /\ m_idx = 2
    /\ store["1001"] = NoRecord
    /\ store["1003"].source = "background_monitor"

\* the (price, source) pairs of the store calls: the loop's and the manual ones
StoreCalls ==
    {<<p, "background_monitor">> : p \in LivePrices} \cup {<<p, "manual">> : p \in ManualSignals}

\* C29: the table holds one record per offer id; a record that a step changes
\* has the time of that step and the price and source of one store call; and
\* the same store made twice leaves the price and source of the first, and
\* every other record as it was.
C29_WholeRecordReplaced ==
    /\ [](\A o \in AllOffers, call \in StoreCalls :
              LET once == StoreCompetitorPrice(store, o, call[1], call[2], now)
                  twice == StoreCompetitorPrice(once, o, call[1], call[2], now + 1)
              IN  /\ twice[o].price = call[1] /\ twice[o].source = call[2]
                  /\ \A q \in AllOffers \ {o} : twice[q] = store[q])
    /\ [][\A o \in AllOffers :
              store'[o] # store[o]
              => (/\ store'[o].last_updated = now
                  /\ <<store'[o].price, store'[o].source>> \in StoreCalls
                  /\ store'[o].source = "manual" <=> stores' # stores)]_vars

\* a manual record of "1003" was replaced by the loop's
C29_Witness ==
    /\ stores = 1
    /\ store["1003"].source = "background_monitor"
    /\ store["1003"].price \in LivePrices

C32_OneFetchPerResolve ==
    /\ w_fetches <= 1
    /\ (FetchedAndReturned /\ w_real = NoneVal) => (w_fetches = 1 /\ w_tier = "simulated")

\* a request whose API call failed was answered after one fetch
C32_Witness ==
    /\ w_pc = "idle" /\ w_status \in {"updated", "update_failed", "no_change"}
    /\ w_api = FetchError /\ w_fetches = 1 /\ w_tier = "simulated"

\* the branch the decision took for the call: one unit below the competitor
TookUndercut ==
    LET c == ConvertCompetitor(d_comp)
    IN  /\ d_comp # OwnsBuybox /\ IsNum(c) /\ c.v > 0
        /\ d_min <= c.v - CentsPerRand /\ c.v - CentsPerRand <= d_max

\* C34 (as claimed): the rule reported for a decision is WE_OWN_BUYBOX exactly
\* when the signal is OwnsBuybox, R1_BELOW_COMPETITOR exactly when the decision
\* returned competitor - 1, and REVERT_TO_MAX exactly when it reverted to
\* max_price (DecideSpec).
C34_RuleMatchesBranch ==
    (DecideReturned /\ IsNum(d_result))
    => LET rule == DescribeBusinessRule(d_my, d_comp, d_result)
       IN  /\ rule = "WE_OWN_BUYBOX" <=> d_comp = OwnsBuybox
           /\ rule = "R1_BELOW_COMPETITOR" <=> TookUndercut
           /\ rule = "REVERT_TO_MAX" <=> (d_comp # OwnsBuybox /\ ~TookUndercut)

(***************************************************************************)
(* Claims about termination (checked under AnsweringSpec)                  *)
(***************************************************************************)
\* C31: a webhook request in progress is eventually answered.
C31_EveryWebhookAnswered == (w_pc # "idle") ~> (w_pc = "idle")

\* the second request waited in the rate limit, fetched, failed all its
\* submissions and was answered
C31_Witness ==
    /\ served = 2 /\ w_pc = "idle" /\ w_status = "update_failed"
    /\ w_fetches = 1 /\ last_request_time >= StartTime + MIN_REQUEST_INTERVAL

(***************************************************************************)
(* Claims about the submission's retries (checked under PricingSpec)       *)
(***************************************************************************)
\* C36: an update_price call is made only while no call of the request has
\* succeeded; a call that succeeds ends the submission with "updated" at once,
\* and "updated" is answered only when the last call made succeeded.
C36_ReturnsOnFirstSuccess ==
    /\ [](w_status = "updated" => (w_ok /\ w_pc = "idle"))
    /\ [][(w_pc = "submit" /\ w_submits' = w_submits + 1)
          => (/\ ~w_ok
              /\ w_ok' <=> (w_pc' = "idle" /\ w_status' = "updated"))]_vars

\* the second call succeeded and no third was made
C36_Witness ==
    w_pc = "idle" /\ w_status = "updated" /\ w_ok /\ w_submits = 2

(***************************************************************************)
(* Claims about repeated webhooks (checked under EchoSpec)                 *)
(***************************************************************************)
\* C35: when a decision gave price p, a webhook for the same offer that
\* reports p as the current price and resolves to the same signal decides p
\* again and is answered no_change without a submission.
C35_DecisionIsFixpoint ==
    [][(/\ w_pc = "decide" /\ w_pc' # "decide"
        /\ d_pc = "done" /\ w_my = d_result /\ w_comp = d_comp /\ w_offer = d_offer)
       => (/\ w_optimal' = d_result
           /\ w_pc' = "idle" /\ w_status' = "no_change"
           /\ w_submits' = 0)]_vars

\* the decision changed the price, and the webhook that reported the new
\* price with the same signal ended as no_change
C35_Witness ==
    /\ d_pc = "done" /\ d_result # d_my /\ IsNum(d_comp)
    /\ w_pc = "idle" /\ w_status = "no_change" /\ w_submits = 0
    /\ w_my = d_result /\ w_comp = d_comp /\ w_offer = d_offer /\ w_optimal = d_result

(***************************************************************************)
(* Claims about what the monitoring loop writes (checked under MonitorSpec) *)
(***************************************************************************)
\* C39: every record the monitoring loop wrote holds a number above zero, and
\* an iteration of the loop whose scrape gave nothing, zero or a negative
\* number leaves the table as it was.
C39_LoopStoresPositiveOnly ==
    /\ [](\A o \in AllOffers :
            store[o].source = "background_monitor"
                => (IsNum(store[o].price) /\ store[o].price.v > 0))
    /\ [][(m_pc = "product" /\ m_idx' = m_idx + 1
           /\ ~(IsNum(m_price') /\ m_price'.v > 0))
          => store' = store]_vars

\* the loop has just scraped a negative price for its second product, after
\* storing a price for the first, and the second has no record
C39_Witness ==
    /\ m_pc = "pause" /\ m_idx = 3
    /\ IsNum(m_price) /\ m_price.v < 0
    /\ store["1001"].source = "background_monitor" /\ store["1001"].price.v > 0
    /\ store["1003"] = NoRecord

(***************************************************************************)
(* Claims about stopping the loop (checked under StoppingSpec)             *)
(***************************************************************************)
\* C37: once is_monitoring is off the loop enters no further iteration, so it
\* fetches and stores for at most the product whose iteration it had entered;
\* it then ends, and an ended loop fetches and stores nothing.
C37_LoopEndsAfterStop ==
    /\ [][(~is_monitoring' /\ m_pc' = "scrape") => m_pc = "scrape"]_vars
    /\ [][(m_fetch' # m_fetch \/ store' # store) => m_pc = "scrape"]_vars
    /\ [][(m_pc \in {"off", "ended"} /\ m_pc' = m_pc)
          => (store' = store /\ m_fetch' = m_fetch)]_vars
    /\ (~is_monitoring) ~> (m_pc \in {"off", "ended"})

\* the loop was stopped inside the iteration of its second product, after the
\* check of line 131 and before the fetch, with the first product stored
C37_Witness ==
    /\ ~is_monitoring /\ m_pc = "scrape" /\ m_idx = 2 /\ m_cycles = 1
    /\ store["1001"].source = "background_monitor"
    /\ store["1003"] = NoRecord

(***************************************************************************)
(* Claims about start, stop and reload (checked under LoopsSpec and        *)
(* ReloadSpec)                                                             *)
(***************************************************************************)
\* the loop threads that are alive and go on: those of the current
\* PriceMonitor and those of PriceMonitors that a reload replaced
LiveLoops == MonitorLoops + m_orphans

\* C33: whatever start, stop and reload calls were made, at most one
\* monitoring loop is alive.
C33_AtMostOneLoop == LiveLoops <= 1

\* C38: a live fetch is never made sooner than MIN_REQUEST_INTERVAL after the
\* live fetch before it, and a cache entry that has not expired is never
\* dropped, reloads included.
C38_ReloadKeepsLimits ==
    /\ [][last_fetch' # last_fetch
          => (last_fetch = 0 \/ last_fetch' - last_fetch >= MIN_REQUEST_INTERVAL)]_vars
    /\ [][\A o \in AllOffers :
            (price_cache[o].cached /\ CacheValid(now - price_cache[o].timestamp))
                => price_cache'[o].cached]_vars

\* C38, the part about the rate limit alone
C38_FetchesPacedAcrossReload ==
    [][last_fetch' # last_fetch
       => (last_fetch = 0 \/ last_fetch' - last_fetch >= MIN_REQUEST_INTERVAL)]_vars

====
